---- MODULE Spec2Model ----
(***************************************************************************)
(* A model of starshiptroopers/webserver: the gin add-on that numbers      *)
(* requests, detects robots, logs requests, routes by regular expression   *)
(* (AltRouter), parses user agents (DetectUA) and starts the listener in   *)
(* the background (RunBg).                                                 *)
(*                                                                         *)
(* Text is modelled as sequences of one-character strings, so that the     *)
(* regular expressions of the source are matched character by character.   *)
(***************************************************************************)
EXTENDS Integers, Sequences, FiniteSets, TLC

VARIABLES
    \* DetectUA (part_000)
    uaRegexp,       \* part_000:73  the lazily compiled pattern table
    uaInput,        \* the user-agent string DetectUA is called with
    uaCalls,        \* the number of DetectUA calls made
    uaResult,       \* the UserAgent the last DetectUA call returned
    uaGo,           \* the goroutines calling DetectUA at the same time
    uaSched,        \* the goroutine that ran last and the preemptions so far
    \* WebServer (webserver.go:33-39) and the gin engine it owns
    ginRoutes,      \* the engine's routes: method, path and handlers chain
    altRoutes,      \* webserver.go:36  the iRoute list of AltRouter
    serverLog,      \* what config.Logger was given
    registered,     \* whether ServiceRegister has been called
    registerArgs,   \* the group and the services it was called with
    mutex,          \* webserver.go:29  the holder of state.Mutex, 0 when free
    requestCounter, \* webserver.go:30
    \* one goroutine per request
    pc,             \* where each request's goroutine is in the chain
    req,            \* the *http.Request
    handlers,       \* what follows the engine's middlewares in c.handlers
    ctx,            \* c.Keys
    assigned,       \* the number the counter middleware stored under "requestID"
    loggerID,       \* webserver.go:129  httpLogger's local requestID
    status,         \* c.Writer.Status()
    ran,            \* the stages, middlewares and handlers run, in order
    dispatched,     \* the iRoute AltRouter called for the request, 0 for none
    logs,           \* the records config.LoggerHttp was given for the request
    \* RunBg (webserver.go:202-240), one entry per WebServer on the same port
    portOwner,      \* the server whose listener holds the port, 0 when free
    bgPc,           \* where the caller of RunBg and Shutdown is
    bgErr,          \* what RunBg returned
    goPc,           \* where the goroutine of webserver.go:212-217 is
    timerFired,     \* whether time.After(InitTimeout) has delivered
    srvClosed,      \* whether srv.Shutdown has been called
    listenErr       \* what ListenAndServe returned to the goroutine

uaVars == <<uaRegexp, uaInput, uaCalls, uaResult, uaGo, uaSched>>

regVars == <<ginRoutes, altRoutes, serverLog, registered, registerArgs>>

reqVars ==
    <<mutex, requestCounter, pc, req, handlers, ctx, assigned, loggerID, status, ran,
      dispatched, logs>>

bgVars == <<portOwner, bgPc, bgErr, goPc, timerFired, srvClosed, listenErr>>

vars == <<uaVars, regVars, reqVars, bgVars>>

(***************************************************************************)
(* Text                                                                    *)
(***************************************************************************)
RECURSIVE ConcatAll(_)
\* The concatenation of a sequence of sequences.
ConcatAll(ss) == IF ss = <<>> THEN <<>> ELSE Head(ss) \o ConcatAll(Tail(ss))

Digits == {"0", "1", "2", "3", "4", "5", "6", "7", "8", "9"}

DigitVal(c) ==
    CASE c = "0" -> 0 [] c = "1" -> 1 [] c = "2" -> 2 [] c = "3" -> 3
      [] c = "4" -> 4 [] c = "5" -> 5 [] c = "6" -> 6 [] c = "7" -> 7
      [] c = "8" -> 8 [] c = "9" -> 9

\* The letters whose two cases differ, as <<upper, lower>> pairs.
CasePairs ==
    { <<"A", "a">>, <<"B", "b">>, <<"C", "c">>, <<"D", "d">>, <<"E", "e">>,
      <<"F", "f">>, <<"G", "g">>, <<"H", "h">>, <<"I", "i">>, <<"J", "j">>,
      <<"K", "k">>, <<"L", "l">>, <<"M", "m">>, <<"N", "n">>, <<"O", "o">>,
      <<"P", "p">>, <<"Q", "q">>, <<"R", "r">>, <<"S", "s">>, <<"T", "t">>,
      <<"U", "u">>, <<"V", "v">>, <<"W", "w">>, <<"X", "x">>, <<"Y", "y">>,
      <<"Z", "z">> }

\* Simple case folding of one character, as the (?i) flag of regexp does.
Fold(c) ==
    IF \E p \in CasePairs : p[1] = c
    THEN (CHOOSE p \in CasePairs : p[1] = c)[2]
    ELSE c

(***************************************************************************)
(* Regular expressions (package regexp), as syntax trees.  Run is the      *)
(* backtracking matcher: the matches of re in s that start at offset i, in *)
(* the order of preference of the leftmost-first semantics.                *)
(***************************************************************************)
Lit(c)      == [t |-> "lit", c |-> c]            \* one literal character
LitI(c)     == [t |-> "liti", c |-> c]           \* the same under (?i)
Cls(cs)     == [t |-> "cls", cs |-> cs]          \* [...] and \d
AnyChar     == [t |-> "any"]                     \* .
Eol         == [t |-> "eol"]                     \* $
Eps         == [t |-> "eps"]                     \* the empty alternative
Cat(rs)     == [t |-> "cat", rs |-> rs]          \* r1 r2 ... rn
Alt(a, b)   == [t |-> "alt", a |-> a, b |-> b]   \* a|b
Plus(r)     == [t |-> "plus", r |-> r]           \* r+ (greedy)
Star(r)     == [t |-> "star", r |-> r]           \* r* (greedy)
Grp(n, r)   == [t |-> "grp", n |-> n, r |-> r]   \* the n-th capturing group
Str(s)      == Cat([k \in 1..Len(s) |-> Lit(s[k])])
StrI(s)     == Cat([k \in 1..Len(s) |-> LitI(s[k])])
Num         == Plus(Cls(Digits))                 \* \d+

\* The largest number of capturing groups of a pattern of uaList.
MaxGroups == 5

NoCaps == [g \in 1..MaxGroups |-> <<-1, -1>>]

RECURSIVE Run(_, _, _, _)
RECURSIVE RunCat(_, _, _, _, _)

Run(re, s, i, caps) ==
    LET here == <<[pos |-> i, caps |-> caps]>>
        step == <<[pos |-> i + 1, caps |-> caps]>>
        more == i < Len(s)
    IN  CASE re.t = "lit"  -> IF more /\ s[i + 1] = re.c THEN step ELSE <<>>
          [] re.t = "liti" -> IF more /\ Fold(s[i + 1]) = Fold(re.c) THEN step ELSE <<>>
          [] re.t = "cls"  -> IF more /\ s[i + 1] \in re.cs THEN step ELSE <<>>
          [] re.t = "any"  -> IF more THEN step ELSE <<>>
          [] re.t = "eol"  -> IF i = Len(s) THEN here ELSE <<>>
          [] re.t = "eps"  -> here
          [] re.t = "cat"  -> RunCat(re.rs, 1, s, i, caps)
          [] re.t = "alt"  -> Run(re.a, s, i, caps) \o Run(re.b, s, i, caps)
          [] re.t = "plus" ->
                LET first == Run(re.r, s, i, caps)
                IN  ConcatAll([n \in 1..Len(first) |->
                        (IF first[n].pos > i
                         THEN Run(re, s, first[n].pos, first[n].caps)
                         ELSE <<>>) \o <<first[n]>>])
          [] re.t = "star" -> Run(Plus(re.r), s, i, caps) \o here
          [] re.t = "grp"  ->
                LET inner == Run(re.r, s, i, caps)
                IN  [n \in 1..Len(inner) |->
                        [pos  |-> inner[n].pos,
                         caps |-> [inner[n].caps EXCEPT ![re.n] = <<i, inner[n].pos>>]]]

RunCat(rs, k, s, i, caps) ==
    IF k > Len(rs)
    THEN <<[pos |-> i, caps |-> caps]>>
    ELSE LET first == Run(rs[k], s, i, caps)
         IN  ConcatAll([n \in 1..Len(first) |->
                 RunCat(rs, k + 1, s, first[n].pos, first[n].caps)])

NoMatch == [matched |-> FALSE]

RECURSIVE FindFrom(_, _, _)
FindFrom(re, s, i) ==
    IF i > Len(s)
    THEN NoMatch
    ELSE LET rs == Run(re, s, i, NoCaps)
         IN  IF rs # <<>>
             THEN [matched |-> TRUE, start |-> i, end |-> rs[1].pos, caps |-> rs[1].caps]
             ELSE FindFrom(re, s, i + 1)

\* (*Regexp).FindStringSubmatchIndex: the leftmost match and its groups.
FindStringSubmatchIndex(re, s) == FindFrom(re, s, 0)

\* (*Regexp).MatchString: whether s contains any match of re.
MatchString(re, s) == FindStringSubmatchIndex(re, s).matched

\* (*Regexp).ExpandString with the template "$n": the text of group n, empty
\* when the group took no part in the match.
ExpandString(n, s, m) ==
    IF m.caps[n][1] < 0 THEN <<>> ELSE SubSeq(s, m.caps[n][1] + 1, m.caps[n][2])

RECURSIVE DecimalValue(_)
DecimalValue(ds) ==
    IF ds = <<>> THEN 0
    ELSE 10 * DecimalValue(SubSeq(ds, 1, Len(ds) - 1)) + DigitVal(ds[Len(ds)])

\* strconv.ParseUint(str, 10, 64) with its error dropped: 0 for a text that is
\* empty or holds anything but digits.  (The inputs here hold short numbers.)
ParseUint(ds) ==
    IF ds = <<>> \/ \E k \in 1..Len(ds) : ds[k] \notin Digits
    THEN 0
    ELSE DecimalValue(ds)

(***************************************************************************)
(* DetectUA (part_000:22-97)                                               *)
(***************************************************************************)
UA_CHROME_MOBILE == <<"C", "h", "r", "o", "m", "e", " ", "M", "o", "b", "i", "l", "e">>
UA_CHROME        == <<"C", "h", "r", "o", "m", "e">>
UA_YANDEX        == <<"Y", "a", "n", "d", "e", "x", " ", "B", "r", "o", "w", "s", "e", "r">>
UA_MIUI          == <<"M", "i", "u", "i", "B", "r", "o", "w", "s", "e", "r">>
UA_WEBVIEW       == <<"C", "h", "r", "o", "m", "e", " ", "M", "o", "b", "i", "l", "e", " ", "W", "e", "b", "V", "i", "e", "w">>
UA_CHROME_IOS    == <<"C", "h", "r", "o", "m", "e", " ", "M", "o", "b", "i", "l", "e", " ", "i", "O", "S">>
UA_FIREFOX       == <<"F", "i", "r", "e", "f", "o", "x">>
UA_OTHER         == <<"O", "T", "H", "E", "R">>

\* The family constants of the source, UA_OTHER included.
UAFamilies ==
    { UA_CHROME_MOBILE, UA_CHROME, UA_YANDEX, UA_MIUI, UA_WEBVIEW,
      UA_CHROME_IOS, UA_FIREFOX, UA_OTHER }

\* (name)/(\d+)\.(\d+)\.(\d+)
NameV3(name) ==
    Cat(<<Grp(1, name), Lit("/"), Grp(2, Num), Lit("."), Grp(3, Num), Lit("."), Grp(4, Num)>>)

\* (name)/(\d+)\.(\d+)\.(\d+)\.(\d+)
NameV4(name) ==
    Cat(<<Grp(1, name), Lit("/"), Grp(2, Num), Lit("."), Grp(3, Num), Lit("."), Grp(4, Num),
          Lit("."), Grp(5, Num)>>)

uaList ==
    << [Family |-> UA_MIUI,   UaRegexp |-> NameV3(Str(<<"M", "i", "u", "i", "B", "r", "o", "w", "s", "e", "r">>))],
       [Family |-> UA_YANDEX, UaRegexp |-> NameV3(Str(<<"Y", "a", "B", "r", "o", "w", "s", "e", "r">>))],
       \* Version/.+(Chrome)/(\d+)\.(\d+)\.(\d+)\.(\d+)
       [Family |-> UA_WEBVIEW,
        UaRegexp |-> Cat(<<Str(<<"V", "e", "r", "s", "i", "o", "n", "/">>), Plus(AnyChar), NameV4(Str(<<"C", "h", "r", "o", "m", "e">>))>>)],
       \* ; wv\).+(Chrome)/(\d+)\.(\d+)\.(\d+)\.(\d+)
       [Family |-> UA_WEBVIEW,
        UaRegexp |-> Cat(<<Str(<<";", " ", "w", "v", ")">>), Plus(AnyChar), NameV4(Str(<<"C", "h", "r", "o", "m", "e">>))>>)],
       [Family |-> UA_CHROME_IOS, UaRegexp |-> NameV4(Str(<<"C", "r", "i", "O", "S">>))],
       \* (Chrome)/(\d+)\.(\d+)\.(\d+)\.(\d+) Mobile(?:[ /]|$)
       [Family |-> UA_CHROME_MOBILE,
        UaRegexp |-> Cat(<<NameV4(Str(<<"C", "h", "r", "o", "m", "e">>)), Str(<<" ", "M", "o", "b", "i", "l", "e">>),
                           Alt(Cls({" ", "/"}), Eol)>>)],
       \* (Chromium|Chrome)/(\d+)\.(\d+)(?:\.(\d+)|)(?:\.(\d+)|)
       [Family |-> UA_CHROME,
        UaRegexp |-> Cat(<<Grp(1, Alt(Str(<<"C", "h", "r", "o", "m", "i", "u", "m">>), Str(<<"C", "h", "r", "o", "m", "e">>))),
                           Lit("/"), Grp(2, Num), Lit("."), Grp(3, Num),
                           Alt(Cat(<<Lit("."), Grp(4, Num)>>), Eps),
                           Alt(Cat(<<Lit("."), Grp(5, Num)>>), Eps)>>)],
       \* (Firefox)/(\d+)\.(\d+)
       [Family |-> UA_FIREFOX,
        UaRegexp |-> Cat(<<Grp(1, Str(<<"F", "i", "r", "e", "f", "o", "x">>)), Lit("/"), Grp(2, Num), Lit("."),
                           Grp(3, Num)>>)] >>

\* regexp.MustCompile of every pattern of uaList, in table order (lines 79-81).
CompileUaList == [k \in 1..Len(uaList) |-> uaList[k].UaRegexp]

UserAgent(family, major, minor, patch) ==
    [Family |-> family, Major |-> major, Minor |-> minor, Patch |-> patch]

RECURSIVE ScanUA(_, _, _)
\* The loop of lines 83-93 over the compiled table, from its k-th entry on.
ScanUA(table, k, UAstring) ==
    IF k > Len(table)
    THEN UserAgent(UA_OTHER, 0, 0, 0)
    ELSE LET matches == FindStringSubmatchIndex(table[k], UAstring)
         IN  IF matches.matched
             THEN UserAgent(ExpandString(1, UAstring, matches),
                            ParseUint(ExpandString(2, UAstring, matches)),
                            ParseUint(ExpandString(3, UAstring, matches)),
                            ParseUint(ExpandString(4, UAstring, matches)))
             ELSE ScanUA(table, k + 1, UAstring)

\* The table DetectUA scans: compiled on the first call only (line 78).
UaTable(table) == IF Len(table) = 0 THEN CompileUaList ELSE table

\* (ua *UserAgent) Is(UAvalues...)
Is(ua, UAvalues) == \E val \in UAvalues : ua.Family = val

\* The pieces the user-agent strings of the model are put together from.
UAFragments ==
    { <<"M", "i", "u", "i", "B", "r", "o", "w", "s", "e", "r", "/", "1", "0", ".", "1", ".", "2">>,
      <<"Y", "a", "B", "r", "o", "w", "s", "e", "r", "/", "1", "9", ".", "6", ".", "0">>,
      <<"V", "e", "r", "s", "i", "o", "n", "/", "4", ".", "0", " ">>,
      <<";", " ", "w", "v", ")", " ">>,
      <<"C", "h", "r", "o", "m", "e", "/", "9", "1", ".", "0", ".", "4", "4", "7", "2", ".", "1", "2", "4">>,
      <<" ", "M", "o", "b", "i", "l", "e">>,
      <<"C", "r", "i", "O", "S", "/", "5", "6", ".", "0", ".", "2", "9", "2", "4", ".", "7", "5">>,
      <<"C", "h", "r", "o", "m", "i", "u", "m", "/", "5", "8", ".", "0">>,
      <<"F", "i", "r", "e", "f", "o", "x", "/", "8", "9", ".", "0">>,
      <<"c", "u", "r", "l", "/", "7", ".", "6", "4">>,
      <<" ", "S", "a", "f", "a", "r", "i", "/", "5", "3", "7", ".", "3", "6">> }

\* The largest number of fragments of a user-agent string.
MaxUAFrags == 2

RECURSIVE FragStrings(_)
FragStrings(n) ==
    IF n = 0 THEN { <<>> }
    ELSE LET shorter == FragStrings(n - 1)
         IN  shorter \cup { s \o f : s \in shorter, f \in UAFragments }

UAInputs == FragStrings(MaxUAFrags)

NoUA == [Family |-> <<>>, Major |-> 0, Minor |-> 0, Patch |-> 0]

\* The number of DetectUA calls of one run.
MaxUACalls == 2

\* One call DetectUA(UAstring).
DetectUA(UAstring) ==
    /\ uaCalls < MaxUACalls
    /\ uaRegexp' = UaTable(uaRegexp)
    /\ uaResult' = ScanUA(UaTable(uaRegexp), 1, UAstring)
    /\ uaCalls' = uaCalls + 1
    /\ UNCHANGED <<uaInput, uaGo, uaSched, regVars, reqVars, bgVars>>

\* The largest number of goroutines that call DetectUA at the same time.
MaxUAProcs == 2

UAProcs == 1..MaxUAProcs

\* A goroutine in DetectUA: where it is, the string it was called with, the
\* index of the range over uaList (line 79), the value of uaRegexp its append
\* has read, and what it returned.
UAGoroutine(at, UAstring) ==
    [pc |-> at, UAstring |-> UAstring, k |-> 1, read |-> <<>>, result |-> NoUA]

UANotCalled == [g \in UAProcs |-> UAGoroutine("none", <<>>)]

\* The largest number of times the scheduler takes the processor from a
\* goroutine that is inside DetectUA.
MaxPreemptions == 2

NotScheduled == [last |-> 0, preemptions |-> 0]

\* Goroutine g runs next: after itself, after a goroutine that has returned,
\* or by a preemption of the goroutine that ran last.
Preempts(g) ==
    uaSched.last \notin {0, g} /\ uaGo[uaSched.last].pc # "returned"

Schedule(g) ==
    /\ Preempts(g) => uaSched.preemptions < MaxPreemptions
    /\ uaSched' = [last |-> g,
                   preemptions |-> uaSched.preemptions + IF Preempts(g) THEN 1 ELSE 0]

\* if len(uaRegexp) == 0 (line 78): the goroutine reads the shared table
\* without any lock.
UALen(g) ==
    /\ Schedule(g)
    /\ uaGo[g].pc = "len"
    /\ uaGo' = [uaGo EXCEPT ![g].pc = IF Len(uaRegexp) = 0 THEN "compile" ELSE "range"]
    /\ UNCHANGED <<uaRegexp, uaInput, uaCalls, uaResult, regVars, reqVars, bgVars>>

\* One turn of the loop of lines 79-81, first half: append reads uaRegexp.
UAAppendRead(g) ==
    /\ Schedule(g)
    /\ uaGo[g].pc = "compile"
    /\ uaGo' = [uaGo EXCEPT ![g].pc = IF uaGo[g].k > Len(uaList) THEN "range" ELSE "append",
                            ![g].read = uaRegexp]
    /\ UNCHANGED <<uaRegexp, uaInput, uaCalls, uaResult, regVars, reqVars, bgVars>>

\* Second half: the slice with the compiled pattern added is stored in
\* uaRegexp.
UAAppendWrite(g) ==
    /\ Schedule(g)
    /\ uaGo[g].pc = "append"
    /\ uaRegexp' = Append(uaGo[g].read, uaList[uaGo[g].k].UaRegexp)
    /\ uaGo' = [uaGo EXCEPT ![g].pc = "compile", ![g].k = @ + 1]
    /\ UNCHANGED <<uaInput, uaCalls, uaResult, regVars, reqVars, bgVars>>

\* The loop of lines 83-93 over uaRegexp as it is when the range starts, and
\* the return.  UAstring, the argument of the call, is first read here.
UARange(g, UAstring) ==
    /\ Schedule(g)
    /\ uaGo[g].pc = "range"
    /\ uaGo' = [uaGo EXCEPT ![g].pc = "returned",
                            ![g].UAstring = UAstring,
                            ![g].result = ScanUA(uaRegexp, 1, UAstring)]
    /\ UNCHANGED <<uaRegexp, uaInput, uaCalls, uaResult, regVars, reqVars, bgVars>>

(***************************************************************************)
(* robotsDetect (webserver.go:15, 166-185)                                 *)
(***************************************************************************)
robotsUserAgent ==
    << <<"f", "a", "c", "e", "b", "o", "o", "k">>,
       <<"W", "h", "a", "t", "s", "A", "p", "p">>,
       <<"V", "i", "b", "e", "r">>,
       <<"T", "e", "l", "e", "g", "r", "a", "m", "B", "o", "t">>,
       <<"T", "w", "i", "t", "t", "e", "r">>,
       <<"I", "n", "s", "t", "a", "g", "r", "a", "m">>,
       <<"W", "g", "e", "t">> >>

\* regexp.MustCompile("(?i)" + name) for every name (lines 169-171).
RobotRegexps(names) == [k \in 1..Len(names) |-> StrI(names[k])]

RECURSIVE RobotLoop(_, _, _, _)
\* The loop of lines 177-181 from the k-th regexp on; robot is the value the
\* context holds so far.
RobotLoop(regexps, k, userAgent, robot) ==
    IF k > Len(regexps)
    THEN robot
    ELSE RobotLoop(regexps, k + 1, userAgent,
                   IF MatchString(regexps[k], userAgent) THEN TRUE ELSE robot)

\* A robotsDetect that does not look at the X-Robot header (as part_003:160-167).
RobotFlagNoHeader(names, xRobot, userAgent) ==
    RobotLoop(RobotRegexps(names), 1, userAgent, FALSE)

\* The value robotsDetect leaves under the key "robot" (lines 173-182).
RobotFlag(names, xRobot, userAgent) ==
    IF xRobot # ""
    THEN TRUE
    ELSE RobotLoop(RobotRegexps(names), 1, userAgent, FALSE)

(***************************************************************************)
(* Handlers and middlewares of the services (func(ctx *gin.Context)).      *)
(* A function of the model sets context keys, writes a status, aborts the  *)
(* context and panics, in that order, as its entry of Does says.           *)
(***************************************************************************)
Plain == [sets |-> {}, write |-> 0, abort |-> FALSE, panics |-> FALSE]

Does(f) ==
    CASE f = "indexHandler"  -> [Plain EXCEPT !.write = 200]   \* part_000:160
      [] f = "listHandler"   -> [Plain EXCEPT !.write = 200]
      [] f = "anyArticle"    -> [Plain EXCEPT !.write = 200]
      [] f = "numArticle"    -> [Plain EXCEPT !.write = 200]
      [] f = "adminHandler"  -> [Plain EXCEPT !.write = 200]
      [] f = "adminAlt"      -> [Plain EXCEPT !.write = 200]
      [] f = "auth"          -> [Plain EXCEPT !.sets = {"user"}]
      [] f = "deny"          -> [Plain EXCEPT !.write = 403, !.abort = TRUE]
      [] f = "panicHandler"  -> [Plain EXCEPT !.panics = TRUE]
      [] f = "boomAlt"       -> [Plain EXCEPT !.panics = TRUE]
      [] f = "quietHandler"  -> [Plain EXCEPT !.sets = {"httpNoLogging"}, !.write = 200]
      [] f = "quietPanic"    -> [Plain EXCEPT !.sets = {"httpNoLogging"}, !.panics = TRUE]
      [] f = "renumber"      -> [Plain EXCEPT !.sets = {"requestID"}, !.write = 200]

\* The names of the functions of the services.
FuncNames ==
    { "indexHandler", "listHandler", "anyArticle", "numArticle", "adminHandler", "adminAlt",
      "auth", "deny", "panicHandler", "boomAlt", "quietHandler", "quietPanic", "renumber" }

\* (*gin.Context).Set
Set(keys, key, value) ==
    [k \in DOMAIN keys \cup {key} |-> IF k = key THEN value ELSE keys[k]]

\* What a handler stores under a key it sets: true, and 0 for "requestID".
StoredBy(key) == IF key = "requestID" THEN 0 ELSE TRUE

\* The context after f has run on it: c is the keys, the status, the functions
\* run, whether the context is aborted and whether a panic is under way.
Call(f, c) ==
    [keys     |-> [k \in DOMAIN c.keys \cup Does(f).sets |->
                      IF k \in Does(f).sets THEN StoredBy(k) ELSE c.keys[k]],
     status   |-> IF Does(f).write > 0 THEN Does(f).write ELSE c.status,
     ran      |-> Append(c.ran, f),
     aborted  |-> c.aborted \/ Does(f).abort,
     panicked |-> Does(f).panics,
     entry    |-> c.entry]

RECURSIVE GinNext(_, _, _)
\* (*gin.Context).Next over the handlers fs from the k-th on: the next handler
\* runs unless the context is aborted; a panic unwinds the loop.
GinNext(fs, k, c) ==
    IF k > Len(fs) \/ c.aborted \/ c.panicked
    THEN c
    ELSE GinNext(fs, k + 1, Call(fs[k], c))

RECURSIVE CallEach(_, _, _)
\* Plain calls h(c) of the functions fs one after the other (lines 108-111):
\* only a panic ends the sequence.
CallEach(fs, k, c) ==
    IF k > Len(fs) \/ c.panicked
    THEN c
    ELSE CallEach(fs, k + 1, Call(fs[k], c))

(***************************************************************************)
(* The services (WebService, part_000:15-20)                               *)
(***************************************************************************)
WebRoute(path, method, handler) == [Path |-> path, Method |-> method, Handler |-> handler]

\* The PublicWebService of the tests (part_000:134-162).
PublicWebService ==
    [name        |-> "public",
     InitErr     |-> FALSE,
     Middlewares |-> <<>>,
     GinRoutes   |-> <<WebRoute(<<"/">>, "GET", "indexHandler")>>,
     AltRoutes   |-> <<>>]

\* Two patterns of which the first is the more general one.
ArticlesService ==
    [name        |-> "articles",
     InitErr     |-> FALSE,
     Middlewares |-> <<"auth">>,
     GinRoutes   |-> <<WebRoute(<<"/", "l", "i", "s", "t">>, "GET", "listHandler")>>,
     AltRoutes   |-> << WebRoute(Cat(<<Str(<<"/", "a", "r", "t", "i", "c", "l", "e", "s", "/">>), Star(AnyChar)>>),
                                 "GET", "anyArticle"),
                        WebRoute(Cat(<<Str(<<"/", "a", "r", "t", "i", "c", "l", "e", "s", "/">>), Plus(Cls(Digits))>>),
                                 "GET", "numArticle") >>]

\* A service whose Init fails and whose middleware aborts.
AdminService ==
    [name        |-> "admin",
     InitErr     |-> TRUE,
     Middlewares |-> <<"deny">>,
     GinRoutes   |-> <<WebRoute(<<"/", "a", "d", "m", "i", "n">>, "GET", "adminHandler")>>,
     AltRoutes   |-> <<WebRoute(Cat(<<Str(<<"/", "a", "d", "m", "i", "n", "/">>), Star(AnyChar)>>),
                                "POST", "adminAlt")>>]

\* Handlers that panic, suppress the access log and overwrite the request id.
FaultyService ==
    [name        |-> "faulty",
     InitErr     |-> FALSE,
     Middlewares |-> <<>>,
     GinRoutes   |-> << WebRoute(<<"/", "p", "a", "n", "i", "c">>, "GET", "panicHandler"),
                        WebRoute(<<"/", "q", "u", "i", "e", "t">>, "GET", "quietHandler"),
                        WebRoute(<<"/", "q", "u", "i", "e", "t", "p", "a", "n", "i", "c">>, "GET", "quietPanic"),
                        WebRoute(<<"/", "r", "e", "n", "u", "m", "b", "e", "r">>, "GET", "renumber") >>,
     AltRoutes   |-> <<WebRoute(Str(<<"/", "b", "o", "o", "m">>), "GET", "boomAlt")>>]

Services == {PublicWebService, ArticlesService, AdminService, FaultyService}

\* The largest number of services of one ServiceRegister call.
MaxServices == 2

RECURSIVE ServiceLists(_)
\* The lists of at most n different services.
ServiceLists(n) ==
    IF n = 0 THEN { <<>> }
    ELSE LET shorter == ServiceLists(n - 1)
         IN  shorter \cup
             { Append(l, s) : <<l, s>> \in
                 { x \in shorter \X Services : \A k \in 1..Len(x[1]) : x[1][k] # x[2] } }

(***************************************************************************)
(* ServiceRegister (webserver.go:77-116)                                   *)
(***************************************************************************)
\* What the variables s and route hold when the closure of lines 107-112, made
\* for the k-th alternative route of services[i], is called.  The requests
\* come after ServiceRegister has returned: in a build whose range loops make
\* a new variable for every iteration (perIteration) the closure finds the
\* values of its own iteration, and in a build whose loops have one variable
\* it finds the last values the loops gave them.
Captured(services, i, k, perIteration) ==
    IF perIteration
    THEN [s |-> services[i], route |-> services[i].AltRoutes[k]]
    ELSE [s     |-> services[Len(services)],
          route |-> services[i].AltRoutes[Len(services[i].AltRoutes)]]

\* The iRoute appended for the k-th alternative route of services[i]; Handler
\* is the closure, as the functions it calls.
IRoute(services, i, k, perIteration) ==
    [Path    |-> services[i].AltRoutes[k].Path,
     Method  |-> services[i].AltRoutes[k].Method,
     Handler |-> [Middlewares |-> Captured(services, i, k, perIteration).s.Middlewares,
                  Handler     |-> Captured(services, i, k, perIteration).route.Handler]]

\* A loop that goes on to the next service when Init fails.
RegisterOneAbort(group, services, i, perIteration, reg) ==
    LET s    == services[i]
        used == reg.Handlers \o s.Middlewares
    IN  IF s.InitErr
        THEN [reg EXCEPT !.serverLog =
                 Append(@, [level |-> "error", msg |-> "Can't initialize web service",
                            of |-> s.name])]
        ELSE [Handlers  |-> used,
              ginRoutes |-> reg.ginRoutes \cup
                            { [Method   |-> s.GinRoutes[k].Method,
                               Path     |-> group \o s.GinRoutes[k].Path,
                               Handlers |-> used \o <<s.GinRoutes[k].Handler>>]
                              : k \in 1..Len(s.GinRoutes) },
              altRoutes |-> reg.altRoutes \o
                            [k \in 1..Len(s.AltRoutes) |-> IRoute(services, i, k, perIteration)],
              serverLog |-> reg.serverLog]

\* One iteration of the loop of line 86, for services[i].  reg is the state
\* of the registration: the group's handlers, the routes and the log.
RegisterOne(group, services, i, perIteration, reg) ==
    LET s    == services[i]
        used == reg.Handlers \o s.Middlewares
    IN  [Handlers  |-> used,
         ginRoutes |-> reg.ginRoutes \cup
                       { [Method   |-> s.GinRoutes[k].Method,
                          Path     |-> group \o s.GinRoutes[k].Path,
                          Handlers |-> used \o <<s.GinRoutes[k].Handler>>]
                         : k \in 1..Len(s.GinRoutes) },
         altRoutes |-> reg.altRoutes \o
                       [k \in 1..Len(s.AltRoutes) |-> IRoute(services, i, k, perIteration)],
         serverLog |-> IF s.InitErr
                       THEN Append(reg.serverLog,
                                   [level |-> "error",
                                    msg   |-> "Can't initialize web service",
                                    of    |-> s.name])
                       ELSE reg.serverLog]

RECURSIVE RegisterFrom(_, _, _, _, _)
\* The loop of line 86 from services[i] on.
RegisterFrom(group, services, i, perIteration, reg) ==
    IF i > Len(services)
    THEN reg
    ELSE RegisterFrom(group, services, i + 1, perIteration,
                      RegisterOne(group, services, i, perIteration, reg))

\* ServiceRegister(group, services...), called before the server serves, in a
\* build of either kind.
ServiceRegister(group, services, perIteration) ==
    /\ ~registered
    /\ \A r \in DOMAIN pc : pc[r] = "idle"
    /\ LET reg == RegisterFrom(group, services, 1, perIteration,
                      [Handlers |-> <<>>, ginRoutes |-> ginRoutes,
                       altRoutes |-> altRoutes, serverLog |-> serverLog])
       IN  /\ ginRoutes' = reg.ginRoutes
           /\ altRoutes' = reg.altRoutes
           /\ serverLog' = reg.serverLog
    /\ registered' = TRUE
    /\ registerArgs' = [group |-> group, services |-> services]
    /\ UNCHANGED <<uaVars, reqVars, bgVars>>

(***************************************************************************)
(* Serving a request: the chain NewWebServer builds (webserver.go:58-73)   *)
(***************************************************************************)
\* The largest number of requests of one run.
MaxRequests == 2

Requests == 1..MaxRequests

Request(method, path, rawQuery, xRobot, userAgent) ==
    [Method |-> method, Path |-> path, RawQuery |-> rawQuery,
     XRobot |-> xRobot, UserAgent |-> userAgent]

NoRequest == Request("", <<>>, <<>>, "", <<>>)

\* c.Request.RequestURI: the path and, after "?", the query.
RequestURI(q) == IF q.RawQuery = <<>> THEN q.Path ELSE q.Path \o <<"?">> \o q.RawQuery

\* A context with no keys.
NoKeys == [k \in {} |-> TRUE]

\* What an engine without a route for the request runs after its middlewares
\* (line 73).
NoRouteHandlers == <<"AltRouter">>

\* An engine that runs the NoRoute handlers for every request.
HandlersForNoRoute(routes, q) == NoRouteHandlers

\* The engine's choice of c.handlers for a request: the handlers of the route
\* registered for its method and path, and the NoRoute handlers when there is
\* none.
HandlersFor(routes, q) ==
    IF \E rt \in routes : rt.Method = q.Method /\ rt.Path = q.Path
    THEN (CHOOSE rt \in routes : rt.Method = q.Method /\ rt.Path = q.Path).Handlers
    ELSE NoRouteHandlers

RECURSIVE AltScan(_, _, _, _)
\* The loop of lines 119-124 from the k-th iRoute on.
AltScan(routes, k, uri, c) ==
    IF k > Len(routes)
    THEN c
    ELSE IF MatchString(routes[k].Path, uri)
         THEN CallEach(routes[k].Handler.Middlewares \o <<routes[k].Handler.Handler>>,
                       1, [c EXCEPT !.entry = k])
         ELSE AltScan(routes, k + 1, uri, c)

RECURSIVE AltScanBack(_, _, _, _)
AltScanBack(routes, k, uri, c) ==
    IF k < 1
    THEN c
    ELSE IF MatchString(routes[k].Path, uri)
         THEN CallEach(routes[k].Handler.Middlewares \o <<routes[k].Handler.Handler>>,
                       1, [c EXCEPT !.entry = k])
         ELSE AltScanBack(routes, k - 1, uri, c)

\* An AltRouter that prefers the route registered last.
AltRouterLast(routes, uri, c) ==
    AltScanBack(routes, Len(routes), uri, [c EXCEPT !.ran = Append(c.ran, "AltRouter")])

\* (w *WebServer) AltRouter(c)
AltRouter(routes, uri, c) ==
    AltScan(routes, 1, uri, [c EXCEPT !.ran = Append(c.ran, "AltRouter")])

\* A chain without gin.Recovery(): the panic goes on.
RecoveryAbsent(c) == c

\* gin.Recovery() (line 71): a panic of what follows ends here, with the
\* context aborted and the status 500.
Recovery(c) ==
    IF c.panicked
    THEN [c EXCEPT !.panicked = FALSE, !.aborted = TRUE, !.status = 500]
    ELSE c

\* A request arrives: the engine picks its handlers, and the status a response
\* has when nothing writes one (404 under the NoRoute handlers).  The requests
\* are numbered in the order of their arrival.
Arrive(r, q) ==
    /\ pc[r] = "idle"
    /\ \A earlier \in 1..(r - 1) : pc[earlier] # "idle"
    /\ req' = [req EXCEPT ![r] = q]
    /\ handlers' = [handlers EXCEPT ![r] = HandlersFor(ginRoutes, q)]
    /\ status' = [status EXCEPT ![r] =
                     IF HandlersFor(ginRoutes, q) = NoRouteHandlers THEN 404 ELSE 200]
    /\ pc' = [pc EXCEPT ![r] = "lock"]
    /\ UNCHANGED <<mutex, requestCounter, ctx, assigned, loggerID, ran, dispatched, logs>>
    /\ UNCHANGED <<uaVars, regVars, bgVars>>

\* A counter middleware that does not wait for the mutex.
CounterLockNoMutex(r) ==
    /\ pc[r] = "lock"
    /\ mutex' = r
    /\ pc' = [pc EXCEPT ![r] = "increment"]
    /\ ran' = [ran EXCEPT ![r] = Append(@, "counter")]
    /\ UNCHANGED <<requestCounter, req, handlers, ctx, assigned, loggerID, status, dispatched, logs>>
    /\ UNCHANGED <<uaVars, regVars, bgVars>>

\* webServer.state.Lock() (line 60)
CounterLock(r) ==
    /\ pc[r] = "lock"
    /\ mutex = 0
    /\ mutex' = r
    /\ pc' = [pc EXCEPT ![r] = "increment"]
    /\ ran' = [ran EXCEPT ![r] = Append(@, "counter")]
    /\ UNCHANGED <<requestCounter, req, handlers, ctx, assigned, loggerID, status, dispatched, logs>>
    /\ UNCHANGED <<uaVars, regVars, bgVars>>

\* webServer.state.requestCounter++ (line 61)
CounterIncrement(r) ==
    /\ pc[r] = "increment"
    /\ requestCounter' = requestCounter + 1
    /\ pc' = [pc EXCEPT ![r] = "set"]
    /\ UNCHANGED <<mutex, req, handlers, ctx, assigned, loggerID, status, ran, dispatched, logs>>
    /\ UNCHANGED <<uaVars, regVars, bgVars>>

\* c.Set("requestID", webServer.state.requestCounter) (line 63)
CounterSet(r) ==
    /\ pc[r] = "set"
    /\ ctx' = [ctx EXCEPT ![r] = Set(@, "requestID", requestCounter)]
    /\ assigned' = [assigned EXCEPT ![r] = requestCounter]
    /\ pc' = [pc EXCEPT ![r] = "unlock"]
    /\ UNCHANGED <<mutex, requestCounter, req, handlers, loggerID, status, ran, dispatched, logs>>
    /\ UNCHANGED <<uaVars, regVars, bgVars>>

\* A counter middleware that calls c.Next() with the mutex held.
CounterUnlockAfterNext(r) ==
    /\ pc[r] = "unlock"
    /\ pc' = [pc EXCEPT ![r] = "httpLogger"]
    /\ UNCHANGED <<mutex, requestCounter, req, handlers, ctx, assigned, loggerID, status, ran, dispatched, logs>>
    /\ UNCHANGED <<uaVars, regVars, bgVars>>

\* webServer.state.Unlock(); c.Next() (lines 64-65)
CounterUnlock(r) ==
    /\ pc[r] = "unlock"
    /\ mutex' = 0
    /\ pc' = [pc EXCEPT ![r] = "httpLogger"]
    /\ UNCHANGED <<requestCounter, req, handlers, ctx, assigned, loggerID, status, ran, dispatched, logs>>
    /\ UNCHANGED <<uaVars, regVars, bgVars>>

\* An httpLogger whose c.Next() goes past robotsDetect.
LoggerBeforeSkipsRobots(r) ==
    /\ pc[r] = "httpLogger"
    /\ loggerID' = [loggerID EXCEPT ![r] =
                       IF "requestID" \in DOMAIN ctx[r] THEN ctx[r]["requestID"] ELSE 0]
    /\ ran' = [ran EXCEPT ![r] = Append(@, "httpLogger")]
    /\ pc' = [pc EXCEPT ![r] = "Recovery"]
    /\ UNCHANGED <<mutex, requestCounter, req, handlers, ctx, assigned, status, dispatched, logs>>
    /\ UNCHANGED <<uaVars, regVars, bgVars>>

\* httpLogger up to its c.Next() (lines 129-143)
LoggerBefore(r) ==
    /\ pc[r] = "httpLogger"
    /\ loggerID' = [loggerID EXCEPT ![r] =
                       IF "requestID" \in DOMAIN ctx[r] THEN ctx[r]["requestID"] ELSE 0]
    /\ ran' = [ran EXCEPT ![r] = Append(@, "httpLogger")]
    /\ pc' = [pc EXCEPT ![r] = "robotsDetect"]
    /\ UNCHANGED <<mutex, requestCounter, req, handlers, ctx, assigned, status, dispatched, logs>>
    /\ UNCHANGED <<uaVars, regVars, bgVars>>

\* The handler robotsDetect returns, up to its c.Next() (lines 172-183)
RobotsDetect(r) ==
    /\ pc[r] = "robotsDetect"
    /\ ctx' = [ctx EXCEPT ![r] =
                  Set(@, "robot", RobotFlag(robotsUserAgent, req[r].XRobot, req[r].UserAgent))]
    /\ ran' = [ran EXCEPT ![r] = Append(@, "robotsDetect")]
    /\ pc' = [pc EXCEPT ![r] = "Recovery"]
    /\ UNCHANGED <<mutex, requestCounter, req, handlers, assigned, loggerID, status, dispatched,
                   logs>>
    /\ UNCHANGED <<uaVars, regVars, bgVars>>

\* A dispatch whose AltRouter sees only the routes registered for the method
\* of the request.
ServedByMethod(r) ==
    LET c == [keys |-> ctx[r], status |-> status[r], ran |-> Append(ran[r], "Recovery"),
              aborted |-> FALSE, panicked |-> FALSE, entry |-> 0]
        ofMethod == [k \in 1..Len(altRoutes) |->
                        IF altRoutes[k].Method = req[r].Method
                        THEN altRoutes[k]
                        ELSE [altRoutes[k] EXCEPT !.Path = Cls({})]]
    IN  Recovery(IF handlers[r] = NoRouteHandlers
                 THEN AltRouter(ofMethod, RequestURI(req[r]), c)
                 ELSE GinNext(handlers[r], 1, c))

\* What gin.Recovery and the handlers after it leave of the request's context.
Served(r) ==
    LET c == [keys |-> ctx[r], status |-> status[r], ran |-> Append(ran[r], "Recovery"),
              aborted |-> FALSE, panicked |-> FALSE, entry |-> 0]
    IN  Recovery(IF handlers[r] = NoRouteHandlers
                 THEN AltRouter(altRoutes, RequestURI(req[r]), c)
                 ELSE GinNext(handlers[r], 1, c))

\* gin.Recovery and, under it, the route's handlers or AltRouter.  A panic that
\* is still under way leaves the chain: the goroutine never comes back to the
\* middlewares above.
Serve(r) ==
    /\ pc[r] = "Recovery"
    /\ ctx' = [ctx EXCEPT ![r] = Served(r).keys]
    /\ status' = [status EXCEPT ![r] = Served(r).status]
    /\ ran' = [ran EXCEPT ![r] = Served(r).ran]
    /\ dispatched' = [dispatched EXCEPT ![r] = Served(r).entry]
    /\ pc' = [pc EXCEPT ![r] = IF Served(r).panicked THEN "panic" ELSE "logging"]
    /\ UNCHANGED <<mutex, requestCounter, req, handlers, assigned, loggerID, logs>>
    /\ UNCHANGED <<uaVars, regVars, bgVars>>

\* A record whose requestID is read from the context after c.Next().
LogRecordLate(r) ==
    [path       |-> RequestURI(req[r]),
     method     |-> req[r].Method,
     statusCode |-> status[r],
     requestID  |-> IF "requestID" \in DOMAIN ctx[r] THEN ctx[r]["requestID"] ELSE 0]

\* The record of lines 153-161 (latency, clientIp and bodySize left out).
LogRecord(r) ==
    [path       |-> RequestURI(req[r]),
     method     |-> req[r].Method,
     statusCode |-> status[r],
     requestID  |-> loggerID[r]]

\* An httpLogger that does not look at "httpNoLogging" (as part_003:137-149).
LoggerAfterAlways(r) ==
    /\ pc[r] = "logging"
    /\ logs' = [logs EXCEPT ![r] = Append(@, LogRecord(r))]
    /\ pc' = [pc EXCEPT ![r] = "done"]
    /\ UNCHANGED <<mutex, requestCounter, req, handlers, ctx, assigned, loggerID, status, ran, dispatched>>
    /\ UNCHANGED <<uaVars, regVars, bgVars>>

\* An httpLogger that keeps no record of a request answered with an error of
\* the server.
LoggerAfterUnlessError(r) ==
    /\ pc[r] = "logging"
    /\ logs' = [logs EXCEPT ![r] =
                   IF "httpNoLogging" \in DOMAIN ctx[r] \/ status[r] >= 500
                   THEN @ ELSE Append(@, LogRecord(r))]
    /\ pc' = [pc EXCEPT ![r] = "done"]
    /\ UNCHANGED <<mutex, requestCounter, req, handlers, ctx, assigned, loggerID, status, ran, dispatched>>
    /\ UNCHANGED <<uaVars, regVars, bgVars>>

\* httpLogger after its c.Next() (lines 145-161)
LoggerAfter(r) ==
    /\ pc[r] = "logging"
    /\ logs' = [logs EXCEPT ![r] =
                   IF "httpNoLogging" \in DOMAIN ctx[r] THEN @ ELSE Append(@, LogRecord(r))]
    /\ pc' = [pc EXCEPT ![r] = "done"]
    /\ UNCHANGED <<mutex, requestCounter, req, handlers, ctx, assigned, loggerID, status, ran, dispatched>>
    /\ UNCHANGED <<uaVars, regVars, bgVars>>

\* The steps of a request that has arrived.
Step(r) ==
    \/ CounterLock(r)
    \/ CounterIncrement(r)
    \/ CounterSet(r)
    \/ CounterUnlock(r)
    \/ LoggerBefore(r)
    \/ RobotsDetect(r)
    \/ Serve(r)
    \/ LoggerAfter(r)

(***************************************************************************)
(* RunBg and Shutdown (webserver.go:200-240)                               *)
(***************************************************************************)
\* The number of WebServers configured with the same address and port.
MaxServers == 2

Servers == 1..MaxServers

\* The owner of a port that another process has bound.
Foreign == MaxServers + 1

\* RunBg up to its select (lines 203-217): srv is set and the goroutine starts.
RunBg(w) ==
    /\ bgPc[w] = "new"
    /\ bgPc' = [bgPc EXCEPT ![w] = "select"]
    /\ goPc' = [goPc EXCEPT ![w] = "ListenAndServe"]
    /\ UNCHANGED <<portOwner, bgErr, timerFired, srvClosed, listenErr>>
    /\ UNCHANGED <<uaVars, regVars, reqVars>>

\* The goroutine calls w.srv.ListenAndServe() (line 213): it returns at once
\* with ErrServerClosed after a Shutdown and with the bind error when the
\* port is taken; otherwise the listener holds the port and serves.
ListenAndServe(w) ==
    /\ goPc[w] = "ListenAndServe"
    /\ IF srvClosed[w]
       THEN /\ listenErr' = [listenErr EXCEPT ![w] = "ErrServerClosed"]
            /\ goPc' = [goPc EXCEPT ![w] = "exit"]
            /\ UNCHANGED portOwner
       ELSE IF portOwner # 0
            THEN /\ listenErr' = [listenErr EXCEPT ![w] = "bind"]
                 /\ goPc' = [goPc EXCEPT ![w] = "send"]
                 /\ UNCHANGED portOwner
            ELSE /\ portOwner' = w
                 /\ goPc' = [goPc EXCEPT ![w] = "serving"]
                 /\ UNCHANGED listenErr
    /\ UNCHANGED <<bgPc, bgErr, timerFired, srvClosed>>
    /\ UNCHANGED <<uaVars, regVars, reqVars>>

\* ListenAndServe returns while serving, with an error of Accept.
ServeFails(w) ==
    /\ goPc[w] = "serving"
    /\ listenErr' = [listenErr EXCEPT ![w] = "accept"]
    /\ portOwner' = 0
    /\ goPc' = [goPc EXCEPT ![w] = "send"]
    /\ UNCHANGED <<bgPc, bgErr, timerFired, srvClosed>>
    /\ UNCHANGED <<uaVars, regVars, reqVars>>

\* InitTimeout (line 19) elapses: the channel of time.After has its value.
InitTimeout(w) ==
    /\ bgPc[w] = "select"
    /\ ~timerFired[w]
    /\ timerFired' = [timerFired EXCEPT ![w] = TRUE]
    /\ UNCHANGED <<portOwner, bgPc, bgErr, goPc, srvClosed, listenErr>>
    /\ UNCHANGED <<uaVars, regVars, reqVars>>

\* The select takes case <-time.After(InitTimeout) (line 220): err stays nil
\* and RunBg returns it (lines 224-230).
SelectTimeout(w) ==
    /\ bgPc[w] = "select"
    /\ timerFired[w]
    /\ bgErr' = [bgErr EXCEPT ![w] = "nil"]
    /\ bgPc' = [bgPc EXCEPT ![w] = "returned"]
    /\ UNCHANGED <<portOwner, goPc, timerFired, srvClosed, listenErr>>
    /\ UNCHANGED <<uaVars, regVars, reqVars>>

\* A RunBg that loses the error it received.
SelectErrorDropped(w) ==
    /\ bgPc[w] = "select"
    /\ goPc[w] = "send"
    /\ bgErr' = [bgErr EXCEPT ![w] = "nil"]
    /\ bgPc' = [bgPc EXCEPT ![w] = "returned"]
    /\ goPc' = [goPc EXCEPT ![w] = "exit"]
    /\ UNCHANGED <<portOwner, timerFired, srvClosed, listenErr>>
    /\ UNCHANGED <<uaVars, regVars, reqVars>>

\* The select takes case err = <-startupError (line 221) from the goroutine
\* blocked in the send of line 215; RunBg returns the error wrapped (226).
SelectError(w) ==
    /\ bgPc[w] = "select"
    /\ goPc[w] = "send"
    /\ bgErr' = [bgErr EXCEPT ![w] = "can't start web server"]
    /\ bgPc' = [bgPc EXCEPT ![w] = "returned"]
    /\ goPc' = [goPc EXCEPT ![w] = "exit"]
    /\ UNCHANGED <<portOwner, timerFired, srvClosed, listenErr>>
    /\ UNCHANGED <<uaVars, regVars, reqVars>>

\* Shutdown (lines 234-240) of a server RunBg has returned from: the listener
\* is closed and a serving ListenAndServe returns ErrServerClosed, which the
\* goroutine does not send (line 214).
Shutdown(w) ==
    /\ bgPc[w] = "returned"
    /\ srvClosed' = [srvClosed EXCEPT ![w] = TRUE]
    /\ bgPc' = [bgPc EXCEPT ![w] = "shutdown"]
    /\ IF goPc[w] = "serving"
       THEN /\ portOwner' = 0
            /\ listenErr' = [listenErr EXCEPT ![w] = "ErrServerClosed"]
            /\ goPc' = [goPc EXCEPT ![w] = "exit"]
       ELSE UNCHANGED <<portOwner, listenErr, goPc>>
    /\ UNCHANGED <<bgErr, timerFired>>
    /\ UNCHANGED <<uaVars, regVars, reqVars>>

(***************************************************************************)
(* The specifications                                                      *)
(***************************************************************************)
\* No DetectUA call is under way.
UAIdle ==
    /\ uaRegexp = <<>>
    /\ uaInput = <<>>
    /\ uaCalls = 0
    /\ uaResult = NoUA
    /\ uaGo = UANotCalled
    /\ uaSched = NotScheduled

\* NewWebServer (lines 47-75): no service, the counter at 0, no request.
NewWebServer ==
    /\ ginRoutes = {}
    /\ altRoutes = <<>>
    /\ serverLog = <<>>
    /\ registered = FALSE
    /\ registerArgs = [group |-> <<>>, services |-> <<>>]
    /\ mutex = 0
    /\ requestCounter = 0
    /\ pc = [r \in Requests |-> "idle"]
    /\ req = [r \in Requests |-> NoRequest]
    /\ handlers = [r \in Requests |-> <<>>]
    /\ ctx = [r \in Requests |-> NoKeys]
    /\ assigned = [r \in Requests |-> 0]
    /\ loggerID = [r \in Requests |-> 0]
    /\ status = [r \in Requests |-> 0]
    /\ ran = [r \in Requests |-> <<>>]
    /\ dispatched = [r \in Requests |-> 0]
    /\ logs = [r \in Requests |-> <<>>]

\* RunBg has not been called; the port is free or bound by another process.
BgIdle(owners) ==
    /\ portOwner \in owners
    /\ bgPc = [w \in Servers |-> "new"]
    /\ bgErr = [w \in Servers |-> "none"]
    /\ goPc = [w \in Servers |-> "none"]
    /\ timerFired = [w \in Servers |-> FALSE]
    /\ srvClosed = [w \in Servers |-> FALSE]
    /\ listenErr = [w \in Servers |-> "none"]

Init == UAIdle /\ NewWebServer /\ BgIdle({0})

Get(path) == Request("GET", path, <<>>, "", <<>>)

\* Spec: requests served concurrently by a server with the public and the
\* faulty service.
ConcurrentRequests ==
    { Get(<<"/", "p", "a", "n", "i", "c">>),
      Get(<<"/", "q", "u", "i", "e", "t">>),
      Get(<<"/", "q", "u", "i", "e", "t", "p", "a", "n", "i", "c">>),
      Get(<<"/", "r", "e", "n", "u", "m", "b", "e", "r">>),
      Get(<<"/", "b", "o", "o", "m">>) }

Next ==
    \/ \E perIteration \in BOOLEAN :
          ServiceRegister(<<>>, <<PublicWebService, FaultyService>>, perIteration)
    \/ \E r \in Requests :
          \/ \E q \in ConcurrentRequests : Arrive(r, q)
          \/ Step(r)

Spec == Init /\ [][Next]_vars

\* SpecRoute: one request to a server with any services, in any order.
RoutePaths ==
    { <<"/">>, <<"/", "l", "i", "s", "t">>, <<"/", "v", "1", "/", "l", "i", "s", "t">>, <<"/", "a", "d", "m", "i", "n">>, <<"/", "a", "r", "t", "i", "c", "l", "e", "s", "/", "4", "2">>, <<"/", "a", "r", "t", "i", "c", "l", "e", "s", "/", "x">>,
      <<"/", "a", "d", "m", "i", "n", "/", "u", "s", "e", "r", "s">>, <<"/", "b", "o", "o", "m">>, <<"/", "n", "o", "n", "e">>,
      <<"/", "p", "a", "n", "i", "c">>, <<"/", "q", "u", "i", "e", "t", "p", "a", "n", "i", "c">> }

RouteRequests ==
    { Request(m, p, <<>>, "", <<>>) : m \in {"GET", "POST"}, p \in RoutePaths }
    \cup { Request("GET", <<"/", "f", "i", "n", "d">>, <<"u", "=", "/", "a", "r", "t", "i", "c", "l", "e", "s", "/", "7">>, "", <<>>) }

Groups == { <<>>, <<"/", "v", "1">> }

NextRoute ==
    \/ \E group \in Groups, services \in ServiceLists(MaxServices), perIteration \in BOOLEAN :
          ServiceRegister(group, services, perIteration)
    \/ \E q \in RouteRequests : Arrive(1, q)
    \/ Step(1)

SpecRoute == Init /\ [][NextRoute]_vars

\* SpecRobot: one request with any X-Robot header and User-Agent.
RobotFragments ==
    { <<"T", "e", "l", "e", "g", "r", "a", "m", "B", "o", "t">>, <<" ", "(", "l", "i", "k", "e", " ", "T", "w", "i", "t", "t", "e", "r", "B", "o", "t", ")">>, <<"W", "G", "E", "T">>, <<"w", "g", "e", "t", "/", "1", ".", "2", "0">>, <<"c", "u", "r", "l", "/", "7", ".", "6", "4">>,
      <<"M", "o", "z", "i", "l", "l", "a", "/", "5", ".", "0", " ">>, <<"f", "a", "c", "e", "b", "o", "o", "k", "e", "x", "t", "e", "r", "n", "a", "l", "h", "i", "t", "/", "1", ".", "1">>, <<"v", "i", "B", "E", "R">>, <<"W", "h", "a", "t", "s">>, <<"A", "p", "p">> }

RECURSIVE RobotStrings(_)
RobotStrings(n) ==
    IF n = 0 THEN { <<>> }
    ELSE LET shorter == RobotStrings(n - 1)
         IN  shorter \cup { s \o f : s \in shorter, f \in RobotFragments }

RobotRequests ==
    { Request("GET", <<"/">>, <<>>, x, ua) : x \in {"", "1"}, ua \in RobotStrings(MaxUAFrags) }

NextRobot ==
    \/ \E q \in RobotRequests : Arrive(1, q)
    \/ Step(1)

SpecRobot == Init /\ [][NextRobot]_vars

\* SpecUA: DetectUA called on any of the user-agent strings.
InitUA ==
    /\ uaRegexp = <<>>
    /\ uaInput \in UAInputs
    /\ uaCalls = 0
    /\ uaResult = NoUA
    /\ uaGo = UANotCalled
    /\ uaSched = NotScheduled
    /\ NewWebServer /\ BgIdle({0})

NextUA == DetectUA(uaInput)

SpecUA == InitUA /\ [][NextUA]_vars

\* SpecBg: RunBg and Shutdown of the servers of one port.
InitBg == UAIdle /\ NewWebServer /\ BgIdle({0, Foreign})

NextBg ==
    \E w \in Servers :
        \/ RunBg(w)
        \/ ListenAndServe(w)
        \/ ServeFails(w)
        \/ InitTimeout(w)
        \/ SelectTimeout(w)
        \/ SelectError(w)
        \/ Shutdown(w)

SpecBg == InitBg /\ [][NextBg]_vars

(***************************************************************************)
(* The claims                                                              *)
(***************************************************************************)
\* The requests whose counter middleware has stored a number.
Numbered == { r \in Requests : assigned[r] # 0 }

\* The functions of the services run for request r so far, in order.
FuncsRun(r) == SelectSeq(ran[r], LAMBDA f : f \in FuncNames)

\* A function run for request r has set the key "httpNoLogging".
SetsNoLogging(r) ==
    \E k \in 1..Len(FuncsRun(r)) : "httpNoLogging" \in Does(FuncsRun(r)[k]).sets

\* A function run for request r has panicked.
Panicked(r) == \E k \in 1..Len(FuncsRun(r)) : Does(FuncsRun(r)[k]).panics

\* C1: under any interleaving of the request goroutines, the numbers the
\* counter middleware has stored under "requestID" are, at every moment, the
\* numbers 1..n of the n requests numbered so far: no number is given twice
\* and none is skipped.
C1_SequenceNumbers ==
    /\ \A r1, r2 \in Numbered : r1 # r2 => assigned[r1] # assigned[r2]
    /\ { assigned[r] : r \in Numbered } = 1..Cardinality(Numbered)

\* All the requests are in flight together and numbered, the first one last.
C1_Witness ==
    /\ Numbered = Requests
    /\ assigned[1] = MaxRequests
    /\ \A r \in Requests : pc[r] \notin {"idle", "done"}

\* C2: a request for which a handler has set "httpNoLogging" ends with no
\* access-log record, every other request of the same server ends with exactly
\* one, and no request ever has more than one.
C2_SuppressedLogging ==
    \A r \in Requests :
        /\ Len(logs[r]) <= 1
        /\ pc[r] = "done" => Len(logs[r]) = IF SetsNoLogging(r) THEN 0 ELSE 1

\* Two requests of one server are done: a suppressed one without a record and
\* another one with its record.
C2_Witness ==
    \E r1, r2 \in Requests :
        /\ pc[r1] = "done" /\ SetsNoLogging(r1) /\ logs[r1] = <<>>
        /\ pc[r2] = "done" /\ ~SetsNoLogging(r2) /\ Len(logs[r2]) = 1

RECURSIVE LastWritten(_, _)
\* The status the last of the functions fs to write one has written, and the
\* status st when none of them writes.
LastWritten(fs, st) ==
    IF fs = <<>> THEN st
    ELSE LastWritten(Tail(fs), IF Does(Head(fs)).write > 0 THEN Does(Head(fs)).write ELSE st)

\* C3: a panic of a handler, of a route of the engine or of an alternative
\* route, never leaves the chain: the request goes on to the logger with the
\* status 500; the mutex is never left locked; and a request numbered after a
\* request that panicked is served as usual, ending with the status its own
\* handlers wrote (404 when it has none).
C3_PanicContained ==
    \A r \in Requests :
        /\ pc[r] # "panic"
        /\ Panicked(r) /\ pc[r] \in {"logging", "done"} => status[r] = 500
        /\ mutex = r => pc[r] \in {"increment", "set", "unlock"}
        /\ \A r2 \in Requests :
              /\ Panicked(r) /\ pc[r] = "done"
              /\ assigned[r2] > assigned[r] /\ pc[r2] = "done" /\ ~Panicked(r2)
              => status[r2] = LastWritten(FuncsRun(r2),
                                 IF handlers[r2] = NoRouteHandlers THEN 404 ELSE 200)

\* A handler of an alternative route has panicked, its request is done with
\* the status 500, and the request numbered after it is done with a 200.
C3_Witness ==
    /\ pc[1] = "done" /\ Panicked(1) /\ dispatched[1] > 0 /\ status[1] = 500
    /\ pc[2] = "done" /\ assigned[2] > assigned[1] /\ status[2] = 200

\* The iRoutes whose pattern matches the URI of request r.
Matching(r) ==
    { k \in 1..Len(altRoutes) : MatchString(altRoutes[k].Path, RequestURI(req[r])) }

\* AltRouter has run for request r.
AltRouterRan(r) == \E k \in 1..Len(ran[r]) : ran[r][k] = "AltRouter"

\* What has run for request r after AltRouter was entered.
RanInAltRouter(r) ==
    LET at == CHOOSE k \in 1..Len(ran[r]) : ran[r][k] = "AltRouter"
    IN  SubSeq(ran[r], at + 1, Len(ran[r]))

\* C4: AltRouter calls the first iRoute, in the order of registration, whose
\* pattern matches the request URI, and no other one: when several match,
\* none of the later ones is called, however specific its pattern.
C4_FirstMatchWins ==
    \A r \in Requests :
        AltRouterRan(r) =>
            /\ Matching(r) # {} =>
                  /\ dispatched[r] \in Matching(r)
                  /\ \A k \in Matching(r) : dispatched[r] <= k
            /\ Matching(r) = {} => dispatched[r] = 0

\* "/articles/.*" was registered before "/articles/[0-9]+", the URI matches
\* both, and the first was called.
C4_Witness ==
    /\ AltRouterRan(1)
    /\ Cardinality(Matching(1)) >= 2
    /\ dispatched[1] = 1
    /\ altRoutes[1].Path = ArticlesService.AltRoutes[1].Path
    /\ altRoutes[2].Path = ArticlesService.AltRoutes[2].Path

\* The service and the alternative route an iRoute was registered for.
OwnerOf(route) ==
    CHOOSE sk \in UNION { { <<s, k>> : k \in 1..Len(s.AltRoutes) } : s \in Services } :
        sk[1].AltRoutes[sk[2]].Path = route.Path

\* C5: when AltRouter calls an iRoute, what runs is the middlewares of the
\* service that registered it, in their order, and then the handler that was
\* registered with its pattern, whatever else is registered.
C5_OwnMiddlewaresAndHandler ==
    \A r \in Requests :
        pc[r] \in {"logging", "done"} /\ dispatched[r] > 0 =>
            LET own == OwnerOf(altRoutes[dispatched[r]])
            IN  RanInAltRouter(r) =
                    own[1].Middlewares \o <<own[1].AltRoutes[own[2]].Handler>>

\* C6: AltRouter runs for a request only when the engine has no route for its
\* method and path; when it runs and no pattern matches the URI, no function
\* of any service runs and the response keeps the engine's 404.
C6_FallbackOnly ==
    \A r \in Requests :
        AltRouterRan(r) =>
            /\ ~ \E rt \in ginRoutes : rt.Method = req[r].Method /\ rt.Path = req[r].Path
            /\ Matching(r) = {} /\ pc[r] \in {"logging", "done"} =>
                  /\ FuncsRun(r) = <<>>
                  /\ dispatched[r] = 0
                  /\ status[r] = 404

\* Alternative routes are registered, none matches the URI, and the request is
\* done with a 404.
C6_Witness ==
    /\ AltRouterRan(1) /\ pc[1] = "done"
    /\ altRoutes # <<>> /\ ginRoutes # {}
    /\ Matching(1) = {}
    /\ status[1] = 404 /\ FuncsRun(1) = <<>>

\* The services with every InitErr cleared.
InitOk(services) == [k \in 1..Len(services) |-> [services[k] EXCEPT !.InitErr = FALSE]]

\* C10: an error of a service's Init is logged and changes nothing else: the
\* routes and the alternative routes registered by a ServiceRegister call are
\* those the call registers when no Init fails, and the log holds one error
\* for every service whose Init failed.
C10_InitErrorNotFatal ==
    registered =>
        LET services == registerArgs.services
            clean(perIteration) ==
                RegisterFrom(registerArgs.group, InitOk(services), 1, perIteration,
                    [Handlers |-> <<>>, ginRoutes |-> {}, altRoutes |-> <<>>,
                     serverLog |-> <<>>])
        IN  /\ \E perIteration \in BOOLEAN :
                  /\ ginRoutes = clean(perIteration).ginRoutes
                  /\ altRoutes = clean(perIteration).altRoutes
            /\ Len(serverLog) = Cardinality({ k \in 1..Len(services) : services[k].InitErr })
            /\ \A k \in 1..Len(services) :
                  /\ \A j \in 1..Len(services[k].GinRoutes) :
                        \E rt \in ginRoutes :
                            /\ rt.Method = services[k].GinRoutes[j].Method
                            /\ rt.Path = registerArgs.group \o services[k].GinRoutes[j].Path
                  /\ \A j \in 1..Len(services[k].AltRoutes) :
                        \E n \in 1..Len(altRoutes) :
                            altRoutes[n].Path = services[k].AltRoutes[j].Path

\* The Init of the first service failed and was logged; the routes of both
\* services are registered.
C10_Witness ==
    /\ registered
    /\ registerArgs.services = <<AdminService, ArticlesService>>
    /\ Len(serverLog) = 1
    /\ Len(altRoutes) = 3
    /\ Cardinality(ginRoutes) = 2

\* The text holds the name somewhere, the case of the letters set aside.
ContainsFold(text, name) ==
    \E i \in 0..(Len(text) - Len(name)) :
        \A j \in 1..Len(name) : Fold(text[i + j]) = Fold(name[j])

\* C7: the value robotsDetect stores under "robot" is true exactly when the
\* X-Robot header is not empty or the User-Agent holds one of the crawler
\* names in any case; so a request with the header is a robot whatever its
\* User-Agent, and one with neither header nor User-Agent is not.
C7_RobotFlag ==
    \A r \in Requests :
        /\ "robot" \in DOMAIN ctx[r] <=> pc[r] \in {"Recovery", "logging", "done"}
        /\ "robot" \in DOMAIN ctx[r] =>
              ctx[r]["robot"] =
                  (\/ req[r].XRobot # ""
                   \/ \E k \in 1..Len(robotsUserAgent) :
                         ContainsFold(req[r].UserAgent, robotsUserAgent[k]))

\* A request with the header X-Robot: 1 and a User-Agent that holds no crawler
\* name is done as a robot.
C7_Witness ==
    /\ pc[1] = "done"
    /\ req[1].XRobot = "1"
    /\ req[1].UserAgent # <<>>
    /\ \A k \in 1..Len(robotsUserAgent) : ~ContainsFold(req[1].UserAgent, robotsUserAgent[k])
    /\ ctx[1]["robot"] = TRUE

\* The patterns of uaList that match the text.
UaMatching(text) == { k \in 1..Len(uaList) : MatchString(uaList[k].UaRegexp, text) }

\* The Family uaList attaches to the first of its patterns to match the text.
FamilyOfFirstMatch(text) ==
    uaList[CHOOSE k \in UaMatching(text) : \A j \in UaMatching(text) : k <= j].Family

\* C8: DetectUA returns as Family the family name uaList attaches to the first
\* of its patterns to match the input, and OTHER with the version 0.0.0 when
\* none matches; the Family is always one of the family constants.
C8_FamilyOfTable ==
    uaCalls > 0 =>
        /\ uaResult.Family \in UAFamilies
        /\ UaMatching(uaInput) # {} => uaResult.Family = FamilyOfFirstMatch(uaInput)
        /\ UaMatching(uaInput) = {} => uaResult = UserAgent(UA_OTHER, 0, 0, 0)

\* The server whose ListenAndServe found the port taken.
FailedToStart(w) == listenErr[w] = "bind"

\* C9 as stated: once RunBg has returned, its error is not nil if the listener
\* failed to start, whatever came first, the timeout or the failure.
C9_ErrorWheneverListenerFails ==
    \A w \in Servers :
        bgPc[w] \in {"returned", "shutdown"} /\ FailedToStart(w) => bgErr[w] # "nil"

\* The goroutine has handed an error of ListenAndServe over to RunBg.
Reported(w) == goPc[w] = "exit" /\ listenErr[w] \in {"bind", "accept"}

\* C9 as amended: RunBg returns an error exactly when its select received the
\* listener's failure from startupError, and nil exactly when the select took
\* the timeout, which it may do although the listener fails (later, or at the
\* same time); the two results differ in the error returned.
C9_ErrorIffReported ==
    \A w \in Servers :
        bgPc[w] \in {"returned", "shutdown"} =>
            /\ bgErr[w] \in {"nil", "can't start web server"}
            /\ bgErr[w] # "nil" <=> Reported(w)
            /\ bgErr[w] = "nil" => timerFired[w]

\* The first server holds the port and the second one's RunBg has returned
\* the error of its listener, before its timeout.
C9_Witness ==
    /\ portOwner = 1
    /\ bgPc[2] = "returned" /\ bgErr[2] = "can't start web server"
    /\ FailedToStart(2) /\ ~timerFired[2]

\* The global middlewares in the order NewWebServer installs them (lines 58-71).
StageOrder == <<"counter", "httpLogger", "robotsDetect", "Recovery">>

\* s is the beginning of t.
IsPrefix(s, t) == Len(s) <= Len(t) /\ SubSeq(t, 1, Len(s)) = s

\* What has run for request r after the global middlewares.
Dispatch(r) == SubSeq(ran[r], Len(StageOrder) + 1, Len(ran[r]))

\* C11: for every request, served by a route of the engine, by an alternative
\* route or by nobody, the stages run in the order counter, httpLogger,
\* robotsDetect, Recovery, and the dispatch comes after them: the handlers of
\* the engine's route, or AltRouter and what it calls.  So "requestID" and
\* "robot" are set when the first function of a service starts, and stay set.
C11_StageOrder ==
    \A r \in Requests :
        /\ pc[r] \in {"idle", "lock", "increment", "set", "unlock", "httpLogger",
                      "robotsDetect", "Recovery"}
              => IsPrefix(ran[r], StageOrder) /\ Len(ran[r]) < Len(StageOrder)
        /\ pc[r] = "httpLogger" => ran[r] = <<"counter">> /\ assigned[r] > 0
        /\ pc[r] = "robotsDetect" => ran[r] = <<"counter", "httpLogger">>
        /\ pc[r] = "Recovery" =>
              /\ ran[r] = <<"counter", "httpLogger", "robotsDetect">>
              /\ {"requestID", "robot"} \subseteq DOMAIN ctx[r]
              /\ ctx[r]["requestID"] = assigned[r]
        /\ pc[r] \in {"logging", "done"} =>
              /\ IsPrefix(StageOrder, ran[r])
              /\ {"requestID", "robot"} \subseteq DOMAIN ctx[r]
              /\ IF handlers[r] = NoRouteHandlers
                 THEN /\ Dispatch(r) # <<>> /\ Head(Dispatch(r)) = "AltRouter"
                      /\ \A k \in 2..Len(Dispatch(r)) : Dispatch(r)[k] \in FuncNames
                 ELSE /\ Dispatch(r) # <<>>
                      /\ \A k \in 1..Len(Dispatch(r)) : Dispatch(r)[k] \in FuncNames

\* A request served by an alternative route is done: the four stages ran in
\* their order, then AltRouter, then a middleware and a handler of a service.
C11_Witness ==
    /\ pc[1] = "done" /\ dispatched[1] > 0
    /\ SubSeq(ran[1], 1, 5) = StageOrder \o <<"AltRouter">>
    /\ Len(FuncsRun(1)) = 2
    /\ {"requestID", "robot"} \subseteq DOMAIN ctx[1]

\* SpecUARace: goroutines in their first DetectUA calls, at the same time.
RaceInputs ==
    { <<"F", "i", "r", "e", "f", "o", "x", "/", "8", "9", ".", "0">>,
      <<"M", "i", "u", "i", "B", "r", "o", "w", "s", "e", "r", "/", "1", "0", ".", "1", ".", "2">>,
      <<"C", "h", "r", "o", "m", "e", "/", "9", "1", ".", "0", ".", "4", "4", "7", "2", ".", "1", "2", "4", " ", "M", "o", "b", "i", "l", "e">>,
      <<"c", "u", "r", "l", "/", "7", ".", "6", "4">> }

InitUARace ==
    /\ uaRegexp = <<>>
    /\ uaInput = <<>>
    /\ uaCalls = 0
    /\ uaResult = NoUA
    /\ uaGo = [g \in UAProcs |-> UAGoroutine("len", <<>>)]
    /\ uaSched = NotScheduled
    /\ NewWebServer /\ BgIdle({0})

NextUARace ==
    \E g \in UAProcs :
        \/ UALen(g)
        \/ UAAppendRead(g)
        \/ UAAppendWrite(g)
        \/ \E UAstring \in RaceInputs : UARange(g, UAstring)

SpecUARace == InitUARace /\ [][NextUARace]_vars

\* C12: when every one of the concurrent first calls has returned, uaRegexp
\* holds one compiled pattern for each entry of uaList, in table order, and
\* every call has returned what it returns when it runs alone.
C12_ConcurrentFirstUse ==
    (\A g \in UAProcs : uaGo[g].pc = "returned") =>
        /\ uaRegexp = CompileUaList
        /\ \A g \in UAProcs : uaGo[g].result = ScanUA(CompileUaList, 1, uaGo[g].UAstring)

\* A function run for request r has aborted the context: the rest of its chain
\* is not to run.
Aborted(r) == \E k \in 1..Len(FuncsRun(r)) : Does(FuncsRun(r)[k]).abort

\* The status a response has when no function writes one.
PresetStatus(r) == IF handlers[r] = NoRouteHandlers THEN 404 ELSE 200

\* The records of a request that panicked or was aborted: none when
\* "httpNoLogging" was set, one otherwise.
RecordsOfFaulty(r) == Len(logs[r]) = IF SetsNoLogging(r) THEN 0 ELSE 1

\* C13 as stated: a request whose handler panicked or ended the chain early
\* has one record (none when "httpNoLogging" was set), and the record carries
\* the status 500.
C13_ServerErrorRecord ==
    \A r \in Requests :
        pc[r] = "done" /\ (Panicked(r) \/ Aborted(r)) =>
            /\ RecordsOfFaulty(r)
            /\ \A k \in 1..Len(logs[r]) : logs[r][k].statusCode = 500

\* C13 as amended: httpLogger's part after c.Next() runs for every request
\* that went through the dispatch, also after a panic or an abort; such a
\* request ends with exactly one record (none when "httpNoLogging" was set) and
\* never has more than one.  The record carries 500 after a panic, and after
\* an abort the status the functions that ran wrote.
C13_LoggerAfterRuns ==
    \A r \in Requests :
        /\ pc[r] # "panic"
        /\ Len(logs[r]) <= 1
        /\ pc[r] = "logging" => logs[r] = <<>>
        /\ pc[r] = "done" /\ (Panicked(r) \/ Aborted(r)) =>
              /\ RecordsOfFaulty(r)
              /\ \A k \in 1..Len(logs[r]) :
                    logs[r][k].statusCode =
                        IF Panicked(r) THEN 500
                        ELSE LastWritten(FuncsRun(r), PresetStatus(r))

\* A handler of a route of the engine has panicked and its request is done
\* with its one record, of status 500.
C13_Witness ==
    /\ pc[1] = "done" /\ Panicked(1) /\ dispatched[1] = 0 /\ ~SetsNoLogging(1)
    /\ Len(logs[1]) = 1 /\ logs[1][1].statusCode = 500

\* SpecCounter: requests served concurrently, where a goroutine inside the
\* counter middleware goes on running (the mutex wakes a waiting goroutine and
\* the four statements of lines 60-64 do not block), and nothing is assumed of
\* the rest of the chain: a handler may block for ever.
BlockingRequests ==
    { Get(<<"/", "q", "u", "i", "e", "t">>),
      Get(<<"/", "p", "a", "n", "i", "c">>) }

NextCounter ==
    \/ \E perIteration \in BOOLEAN :
          ServiceRegister(<<>>, <<PublicWebService, FaultyService>>, perIteration)
    \/ \E r \in Requests :
          \/ \E q \in BlockingRequests : Arrive(r, q)
          \/ Step(r)

CounterStep(r) ==
    CounterLock(r) \/ CounterIncrement(r) \/ CounterSet(r) \/ CounterUnlock(r)

SpecCounter ==
    Init /\ [][NextCounter]_vars /\ \A r \in Requests : WF_vars(CounterStep(r))

\* The places of a request goroutine inside the critical section.
InCriticalSection == {"increment", "set", "unlock"}

\* The places of a request goroutine in the chain after the counter.
Downstream == {"httpLogger", "robotsDetect", "Recovery", "logging"}

\* C14: the mutex is held only from Lock to Unlock, around the increment and
\* the c.Set, and by no goroutine that is in the chain after the counter; so
\* every request that arrives gets its number, whatever the handlers of the
\* other requests do, even when they never return.
C14_LockNotHeldDownstream ==
    /\ [](\A r \in Requests :
             /\ mutex = r => pc[r] \in InCriticalSection
             /\ pc[r] \in Downstream \cup {"done", "idle", "lock"} => mutex # r)
    /\ \A r \in Requests : (pc[r] = "lock") ~> (assigned[r] > 0)

\* The first request is at its handlers, which have not returned, and the
\* second one, numbered after it, is done.
C14_Witness ==
    /\ pc[1] = "Recovery" /\ assigned[1] = 1
    /\ pc[2] = "done" /\ assigned[2] = 2
    /\ mutex = 0

\* SpecMethods: requests of different methods for the same URIs, one after
\* the other, to a server with the articles service (GET patterns) and the
\* admin service (a POST pattern).
MethodRequests ==
    { Request(m, p, <<>>, "", <<>>) :
        m \in {"GET", "POST"},
        p \in { <<"/", "a", "r", "t", "i", "c", "l", "e", "s", "/", "4", "2">>,
                <<"/", "a", "d", "m", "i", "n", "/", "u", "s", "e", "r", "s">> } }

NextMethods ==
    \/ \E perIteration \in BOOLEAN :
          ServiceRegister(<<>>, <<ArticlesService, AdminService>>, perIteration)
    \/ \E r \in Requests :
          \/ /\ \A earlier \in 1..(r - 1) : pc[earlier] = "done"
             /\ \E q \in MethodRequests : Arrive(r, q)
          \/ Step(r)

SpecMethods == Init /\ [][NextMethods]_vars

\* The dispatch of request r is over.
Dispatched(r) == pc[r] \in {"logging", "done"}

\* C15: which iRoute AltRouter calls depends on the request URI and on the
\* registered patterns, not on the method: two requests with the same URI
\* that reach AltRouter of the same server have the same iRoute called and
\* the same functions run, whatever their methods, and a request whose URI
\* matches a pattern is answered by an iRoute whatever method the pattern was
\* registered with.
C15_MethodIgnored ==
    \A r1, r2 \in Requests :
        /\ Dispatched(r1) /\ AltRouterRan(r1) /\ Matching(r1) # {} => dispatched[r1] > 0
        /\ /\ Dispatched(r1) /\ AltRouterRan(r1)
           /\ Dispatched(r2) /\ AltRouterRan(r2)
           /\ RequestURI(req[r1]) = RequestURI(req[r2])
           => /\ dispatched[r1] = dispatched[r2]
              /\ RanInAltRouter(r1) = RanInAltRouter(r2)

\* A GET and a POST request for the same URI are done, both answered with a
\* 200 by the same iRoute, which was registered for GET.
C15_Witness ==
    /\ pc[1] = "done" /\ pc[2] = "done"
    /\ req[1].Method = "GET" /\ req[2].Method = "POST"
    /\ RequestURI(req[1]) = RequestURI(req[2])
    /\ dispatched[1] > 0 /\ dispatched[2] = dispatched[1]
    /\ altRoutes[dispatched[1]].Method = "GET"
    /\ status[1] = 200 /\ status[2] = 200

\* RunBg has left its select: nothing receives from startupError any more, as
\* the channel is a local variable of RunBg (line 211).
NoReceiver(w) == bgPc[w] \in {"returned", "shutdown"}

\* C16: the goroutine RunBg started is never left in its send to startupError
\* (line 215) without a receiver: after ListenAndServe has returned it ends,
\* whenever the timeout fires and whether or not Shutdown is called.
C16_GoroutineEnds ==
    \A w \in Servers : ~(goPc[w] = "send" /\ NoReceiver(w))

\* C17: the requestID of a request's access-log record is the number the
\* counter middleware assigned to the request, whatever the handlers stored
\* under "requestID" afterwards and whatever numbers other requests were
\* given in between.
C17_RecordCarriesAssignedID ==
    \A r \in Requests :
        /\ pc[r] \in {"robotsDetect", "Recovery", "logging", "done"} =>
              loggerID[r] = assigned[r] /\ assigned[r] > 0
        /\ \A k \in 1..Len(logs[r]) : logs[r][k].requestID = assigned[r]

\* The handler of the first request has overwritten "requestID", the second
\* request was numbered after the first, and the record of the first carries
\* the number the counter gave it.
C17_Witness ==
    /\ pc[1] = "done" /\ "renumber" \in { ran[1][k] : k \in 1..Len(ran[1]) }
    /\ ctx[1]["requestID"] # assigned[1]
    /\ assigned[2] = assigned[1] + 1 /\ pc[2] = "done"
    /\ Len(logs[1]) = 1 /\ logs[1][1].requestID = assigned[1]

\* The services, of those registered, that have a route of the engine with
\* this handler.
RouteOwners(handler) ==
    { i \in 1..Len(registerArgs.services) :
        \E j \in 1..Len(registerArgs.services[i].GinRoutes) :
            registerArgs.services[i].GinRoutes[j].Handler = handler }

\* C18: a request served by a route of the engine runs the middlewares of the
\* service the route belongs to and no middleware of another service
\* registered in the same ServiceRegister call, in either order of the
\* services.
C18_OwnMiddlewaresOnly ==
    \A r \in Requests :
        pc[r] # "idle" /\ handlers[r] # NoRouteHandlers =>
            \A i \in RouteOwners(handlers[r][Len(handlers[r])]) :
                /\ handlers[r] = registerArgs.services[i].Middlewares
                                    \o <<handlers[r][Len(handlers[r])]>>
                /\ Dispatched(r) =>
                      \A k \in 1..Len(FuncsRun(r)) :
                          FuncsRun(r)[k] \in
                              { handlers[r][n] : n \in 1..Len(handlers[r]) }
                              \ UNION { { registerArgs.services[o].Middlewares[n] :
                                            n \in 1..Len(registerArgs.services[o].Middlewares) }
                                        : o \in 1..Len(registerArgs.services) \ {i} }

\* C19: after a middleware of a service has aborted the context, no further
\* function runs for the request, on either path: the handler of a matching
\* alternative route is not called, as the handler of a route of the engine
\* is not.
C19_AbortStopsBothPaths ==
    \A r \in Requests :
        Dispatched(r) =>
            \A k \in 1..Len(FuncsRun(r)) :
                Does(FuncsRun(r)[k]).abort => k = Len(FuncsRun(r))

====
